---- MODULE Spec2Model ----
(***************************************************************************)
(* The dichro stream of id4_common/callbacks/dichro_stream.py:             *)
(* Settings, DichroDevice (the published `dichro` device), DichroStream    *)
(* (start / descriptor / event / stop) and the window reduction            *)
(* process_xmcd, with the streamz Source -> partition(n) -> map -> sink    *)
(* pipeline the stream builds at every start document.                     *)
(*                                                                         *)
(* Numbers are fixed point: a float v is the integer v * Scale, and a      *)
(* division rounds toward zero (symmetric in the sign, as float rounding   *)
(* is).                                                                    *)
(***************************************************************************)
EXTENDS Integers, Sequences, FiniteSets, TLC

\* ------------------------------------------------------------------ bounds
\* primary events delivered to event() within one run
MaxEvents == 4
\* start documents delivered to the stream
MaxRuns == 2

\* ------------------------------------------------------------- constants
\* fixed-point scale of the float values
Scale == 10000
\* numpy.nan, the tuple element of a positioner that Settings does not name
NaN == -999999999
\* Python's None
None == "None"

\* --------------------------------------------------------------- helpers
RECURSIVE SumSeq(_)
SumSeq(s) == IF s = <<>> THEN 0 ELSE Head(s) + SumSeq(Tail(s))

\* float division, rounding toward zero
Div(a, b) == IF a >= 0 THEN a \div b ELSE -((-a) \div b)

\* numpy.mean of a one-dimensional array of fixed-point numbers
Mean(s) == Div(SumSeq(s), Len(s))

\* numpy.log(m / d), for the ratios the readings of this model produce
Log(m, d) ==
    CASE m = d -> 0
      [] m = 2 * d -> 6931
      [] 11 * m = 20 * d -> 5978
      [] 2 * m = d -> -6931
      [] 20 * m = 11 * d -> -5978

\* ---------------------------------------------------------------- inputs
\* channel (data key) names
Roles == <<"positioner1", "positioner2", "monitor", "detector">>
PositionerNames == {"energy", "th"}
MonitorNames == {"4idhI0", "Time"}
DetectorNames == {"4idhI1", "4idhI2"}
Patterns == {<<1, -1, -1, 1>>, <<1, -1>>}

\* the descriptor documents a run can deliver: uid -> name and data keys
DescriptorIds == {"d1", "d2", "d3"}
DescriptorDoc(uid) ==
    CASE uid = "d1" -> [name |-> "primary",
                        data_keys |-> {"energy", "th", "4idhI0", "4idhI1"}]
      [] uid = "d2" -> [name |-> "primary",
                        data_keys |-> {"energy", "4idhI0", "4idhI1"}]
      [] uid = "d3" -> [name |-> "baseline",
                        data_keys |-> {"energy", "4idhI0"}]

\* one acquisition point: monitor counts m, detector counts d, position x
Counts == [m |-> 100, d |-> 50, x |-> 1]
Readings == {Counts, [m |-> 100, d |-> 55, x |-> 2]}

\* the data mapping of the event document of reading r under descriptor uid
ChannelValue(r, c) ==
    CASE c = "energy" -> r.x
      [] c = "th" -> 10 * r.x
      [] c = "4idhI0" -> r.m
      [] c = "4idhI1" -> r.d
EventData(uid, r) == [c \in DescriptorDoc(uid).data_keys |-> ChannelValue(r, c)]

\* ---------------------------------------------------------------- Settings
DefaultSettings ==
    [positioner1 |-> "energy", positioner2 |-> None, monitor |-> "4idhI0",
     detector |-> "4idhI1", transmission |-> TRUE, pattern |-> <<1, -1, -1, 1>>]

Range(f) == {f[i] : i \in DOMAIN f}

\* variant: get_keys with key and value exchanged
get_keys_inverted(st) ==
    [c \in {st[role] : role \in {x \in Range(Roles) : st[x] # None}} |->
        CHOOSE role \in Range(Roles) : st[role] = c]

\* variant: get_keys without its "is not None" filter
get_keys_unfiltered(st) == [role \in Range(Roles) |-> st[role]]

\* Settings.get_keys: the roles whose value is not None, mapped to their names
get_keys(st) ==
    [role \in {x \in Range(Roles) : st[x] # None} |-> st[role]]

\* variant: "any" for "all" in the check of the bundle's descriptors
SameDescriptorAny(cache) ==
    \E i \in 1..Len(cache) : cache[i].descriptor = cache[1].descriptor

\* ------------------------------------------------------------ process_xmcd
\* all events of the bundle come from the same descriptor
SameDescriptor(cache) ==
    \A i \in 1..Len(cache) : cache[i].descriptor = cache[1].descriptor

\* every configured channel name is a data key of the bundle's descriptor
KeysMatch(desc_id, dk) ==
    \A role \in DOMAIN dk : dk[role] \in DescriptorDoc(desc_id).data_keys

\* [evt["data"][name] for evt in cache], as fixed-point numbers
Column(cache, name) == [i \in 1..Len(cache) |-> cache[i].data[name] * Scale]

\* variant: detector over monitor in the logarithm, monitor over detector
\* otherwise
AbsorptionInverted(cache, dk, st) ==
    [i \in 1..Len(cache) |->
        IF st.transmission
            THEN Log(cache[i].data[dk["detector"]], cache[i].data[dk["monitor"]])
            ELSE Div(cache[i].data[dk["monitor"]] * Scale,
                     cache[i].data[dk["detector"]])]

\* _xas: log(_mon / _det) in transmission, _det / _mon otherwise
Absorption(cache, dk, st) ==
    [i \in 1..Len(cache) |->
        IF st.transmission
            THEN Log(cache[i].data[dk["monitor"]], cache[i].data[dk["detector"]])
            ELSE Div(cache[i].data[dk["detector"]] * Scale,
                     cache[i].data[dk["monitor"]])]

\* numpy broadcasting of the shapes (a,) and (b,)
Broadcastable(a, b) == a = b \/ a = 1 \/ b = 1

\* variant: the mean of _xas without the polarization pattern
Unsigned(xas, pattern) == xas

\* _xas * array(pattern)
Signed(xas, pattern) ==
    IF Len(xas) = Len(pattern) THEN [i \in 1..Len(xas) |-> xas[i] * pattern[i]]
    ELSE IF Len(pattern) = 1 THEN [i \in 1..Len(xas) |-> xas[i] * pattern[1]]
    ELSE [i \in 1..Len(pattern) |-> xas[1] * pattern[i]]

\* the names of the positioner fields of processed_evt
PositionerFields(dk) ==
    {dk[role] : role \in {"positioner1", "positioner2"} \cap DOMAIN dk}

\* processed_evt when the channel names match the descriptor
MatchedEvt(cache, dk, st) ==
    LET A == Absorption(cache, dk, st)
    IN  [f \in PositionerFields(dk) \cup {"xas", "xmcd"} |->
            CASE f = "xas" -> Mean(A)
              [] f = "xmcd" -> Mean(Signed(A, st.pattern)) * 2
              [] OTHER -> Mean(Column(cache, f))]

\* variant: the degraded event without the zeroed positioner fields
DegradedEvtBare(dk) == [f \in {"xas", "xmcd"} |-> 0]

\* processed_evt when they do not: every field is zero
DegradedEvt(dk) ==
    [f \in PositionerFields(dk) \cup {"xas", "xmcd"} |-> 0]

\* the exception the computation of processed_evt ends with, or None
EvtRaises(cache, dk, st) ==
    IF ~KeysMatch(cache[1].descriptor, dk) THEN None
    ELSE IF ~({"monitor", "detector"} \subseteq DOMAIN dk) THEN "UnboundLocalError"
    ELSE IF ~Broadcastable(Len(cache), Len(st.pattern)) THEN "ValueError"
    ELSE None

ProcessedEvt(cache, dk, st) ==
    IF KeysMatch(cache[1].descriptor, dk)
        THEN MatchedEvt(cache, dk, st)
        ELSE DegradedEvt(dk)

\* dichro_out: the tuple (positioner1, positioner2, xas, xmcd) for the device
DichroOut(evt, st) ==
    << IF st.positioner1 # None THEN evt[st.positioner1] ELSE NaN,
       IF st.positioner2 # None THEN evt[st.positioner2] ELSE NaN,
       evt["xas"], evt["xmcd"] >>

\* the uids of the events of a bundle, in its order
Uids(cache) == [i \in 1..Len(cache) |-> cache[i].uid]

\* process_xmcd(cache) under the captured data_keys dk and the live Settings
\* st: the exception it raises (or None), the tuple it puts to the device and
\* the document it returns (each empty when it raised before)
process_xmcd(cache, dk, st) ==
    IF ~SameDescriptor(cache)
        THEN [exc |-> "Exception", put |-> <<>>, ret |-> <<>>]
    ELSE IF EvtRaises(cache, dk, st) # None
        THEN [exc |-> EvtRaises(cache, dk, st), put |-> <<>>, ret |-> <<>>]
    ELSE LET evt == ProcessedEvt(cache, dk, st)
         IN  IF \E key \in {"positioner1", "positioner2"} :
                    st[key] # None /\ st[key] \notin DOMAIN evt
                 THEN [exc |-> "KeyError", put |-> <<>>, ret |-> <<>>]
                 ELSE [exc |-> None,
                       put |-> <<DichroOut(evt, st)>>,
                       ret |-> <<[data |-> evt,
                                  descriptor |-> cache[1].descriptor,
                                  src |-> Uids(cache)]>>]

\* ------------------------------------------------------------------- state
VARIABLES
    settings,         \* plot_dichro_settings.settings (the Settings object)
    n,                \* DichroStream.n
    in_node,          \* DichroStream.in_node: None or the Source node
    processor,        \* DichroStream.processor: <<>> (None) or <<the
                      \*   partition node: its n and its buffer>>
    out_node,         \* DichroStream.out_node: None or the map node
    data_keys,        \* DichroStream.data_keys: <<>> (None) or <<the channel map>>
    raw_descriptors,  \* LiveDispatcher.raw_descriptors: the uids stored
    dichro,           \* the values of the signals of the dichro device
    observers,        \* the callbacks subscribed to the dichro device
    run,              \* start documents received so far
    k,                \* primary events pushed into in_node since the last start
    windows,          \* the bundles the partition node completed since the last
                      \*   start, each with the exception process_xmcd raised
    emitted,          \* the documents process_event sent downstream since the
                      \*   last start
    puts,             \* the tuples put to the dichro device since the last start,
                      \*   each with the observers its put notified
    dropped,          \* the uids of the events the last stop found buffered and
                      \*   discarded
    raised,           \* the exception the last call ended with, or None
    called,           \* the last call: its name and the descriptor of its event
    start_doc,        \* the start document handed to LiveDispatcher.start:
                      \*   <<>> before the first, else <<the document>>
    returned,         \* what the last call of Settings.get_keys returned:
                      \*   <<>> before the first, else <<the dict>>
    flag,             \* local_scans.flag: the LocalFlag attributes
    pr_setup,         \* utils.pr_setup.pr_setup: positioner, offset, center
                      \*   and dichro_steps
    scan,             \* the scan plan under way: its per_step hook and the
                      \*   number of scan points done
    msgs,             \* the messages the scan plan yielded, one sequence
                      \*   for each scan point
    devices,          \* the settings of the counting devices: preset_monitor
                      \*   of each detector, preset and gate of the monitor
                      \*   channel of the scaler
    counters,         \* utils.counters_class.counters: monitor
    configure_counts, \* configure_counts_wrapper: its arguments, its
                      \*   original_times and how far it has run
    stage_dichro,     \* stage_dichro_wrapper: its arguments, _dichro_token
                      \*   and how far it has run
    subs              \* the RunEngine's subscriptions: the tokens in use

vars == <<settings, n, in_node, processor, out_node, data_keys, raw_descriptors,
          dichro, observers, run, k, windows, emitted, puts, dropped, raised,
          called, start_doc, returned, flag, pr_setup, scan, msgs, devices,
          counters, configure_counts, stage_dichro, subs>>

\* what the stream and the device hold (everything but the record of calls)
stream == <<n, in_node, processor, out_node, data_keys, raw_descriptors>>
log == <<windows, emitted, puts, dropped>>

\* the plans and what they act on
plans == <<flag, pr_setup, scan, msgs, devices, counters, configure_counts,
           stage_dichro, subs>>

\* all that DichroStream, Settings and the dichro device hold or log
callback == <<settings, stream, dichro, observers, run, k, log, raised,
              called, start_doc, returned>>

Observers == {"o1", "o2"}

\* DichroDevice: the component signals start at 0
DichroDevice == [positioner1 |-> 0, positioner2 |-> 0, xas |-> 0, xmcd |-> 0]

\* DichroStream.__init__ and the module-level objects, but for Settings
InitStream ==
    /\ n = 4
    /\ in_node = None
    /\ processor = <<>>
    /\ out_node = None
    /\ data_keys = <<>>
    /\ raw_descriptors = {}
    /\ dichro = DichroDevice
    /\ observers = {}
    /\ run = 0
    /\ k = 0
    /\ windows = <<>>
    /\ emitted = <<>>
    /\ puts = <<>>
    /\ dropped = <<>>
    /\ raised = None
    /\ called = <<"__init__", None>>
    /\ start_doc = <<>>
    /\ returned = <<>>

\* the detectors a plan may count with
Detectors == {"scaler", "vortex"}

\* neither wrapper has been entered
NotEntered == [pc |-> "idle"]

\* the plan modules after import: LocalFlag and PRSetup class attributes, no
\* plan under way, the devices at some setting
InitPlans ==
    /\ flag = [dichro |-> FALSE, fixq |-> FALSE, dichro_steps |-> None]
    /\ pr_setup = [positioner |-> None, offset |-> None, center |-> None,
                   dichro_steps |-> <<1, -1, -1, 1>>]
    /\ scan = [per_step |-> None, point |-> 0]
    /\ msgs = <<>>
    /\ devices = [preset_monitor |-> [det \in Detectors |-> 1],
                  preset |-> 0, gate |-> "N"]
    /\ counters = [monitor |-> "Time"]
    /\ configure_counts = NotEntered
    /\ stage_dichro = NotEntered
    /\ subs = {}

\* the state after the module is imported: the class attributes of Settings
Init == settings = DefaultSettings /\ InitStream /\ InitPlans

\* ---------------------------------------------------------------- Settings
\* no run is between its start and its stop document
Idle == in_node = None

\* variant: an assignment to Settings that an open run takes over at once
SetAttrLive(attr, value) ==
    /\ settings' = [settings EXCEPT ![attr] = value]
    /\ raised' = None
    /\ called' = <<"setattr", None>>
    /\ IF in_node = None
          THEN UNCHANGED <<n, processor, data_keys>>
          ELSE /\ n' = Len(settings'.pattern)
               /\ processor' = <<[processor[1] EXCEPT
                                     !.n = Len(settings'.pattern)]>>
               /\ data_keys' = <<get_keys(settings')>>
    /\ UNCHANGED <<in_node, out_node, raw_descriptors>>
    /\ UNCHANGED <<dichro, observers, run, k, log>>
    /\ UNCHANGED <<start_doc, returned, plans>>

\* an assignment to an attribute of Settings
SetAttr(attr, value) ==
    /\ settings' = [settings EXCEPT ![attr] = value]
    /\ raised' = None
    /\ called' = <<"setattr", None>>
    /\ UNCHANGED <<stream, dichro, observers, run, k, log>>
    /\ UNCHANGED <<start_doc, returned, plans>>

\* stage_dichro_wrapper._stage: the positioner names of the plan
SetPositioner(i, name) ==
    SetAttr(IF i = 1 THEN "positioner1" ELSE "positioner2", name)

\* stage_dichro_wrapper._stage: counters.plot_names[0] and counters.monitor
SetDetector(name) == SetAttr("detector", name)
SetMonitor(name) == SetAttr("monitor", name)

\* pr_setup(): the answer to "Are you measuring in transmission?"
SetTransmission(b) == SetAttr("transmission", b)

\* the setter of pr_setup.dichro_steps
SetPattern(p) == SetAttr("pattern", p)

\* ------------------------------------------------------------ DichroDevice
\* DichroDevice.subscribe: always to the "acq_done" event, not run at once
Subscribe(o) ==
    /\ o \notin observers
    /\ observers' = observers \cup {o}
    /\ raised' = None
    /\ called' = <<"subscribe", None>>
    /\ UNCHANGED <<settings, stream, dichro, run, k, log>>
    /\ UNCHANGED <<start_doc, returned, plans>>

\* DichroDevice.put: the tuple goes to the four signals, then every
\* "acq_done" subscriber runs once
Put(dev_t) ==
    [positioner1 |-> dev_t[1], positioner2 |-> dev_t[2],
     xas |-> dev_t[3], xmcd |-> dev_t[4]]

\* variant: the subscribers run for the signals' put and again for acq_done
run_subs_twice(subscribers) == [o \in subscribers |-> 2]

\* _run_subs(sub_type=SUB_ACQ_DONE): how often each subscriber is called
run_subs(subscribers) == [o \in subscribers |-> 1]

\* ------------------------------------------------------------ DichroStream
\* the start documents of the plans: count has no motors, the scans name
\* theirs
StartDocs ==
    {[plan_name |-> "count"],
     [plan_name |-> "ascan", motors |-> <<"energy">>],
     [plan_name |-> "grid_scan", motors |-> <<"th", "energy">>]}

\* the positioners of Settings that are not None, positioner1 first
Motors(st) ==
    (IF st.positioner1 # None THEN <<st.positioner1>> ELSE <<>>)
        \o (IF st.positioner2 # None THEN <<st.positioner2>> ELSE <<>>)

\* variant: the motors of the incoming document are kept when it has some
WithMotorsDefault(doc, st) ==
    IF "motors" \in DOMAIN doc
        THEN doc
        ELSE [f \in DOMAIN doc \cup {"motors"} |->
                 IF f = "motors" THEN Motors(st) ELSE doc[f]]

\* _start_doc["motors"] = [] and the appends: the document with its motors
\* entry set
WithMotors(doc, st) ==
    [f \in DOMAIN doc \cup {"motors"} |->
        IF f = "motors" THEN Motors(st) ELSE doc[f]]

\* variant: a start that finds a pipeline in place keeps its partition node
\* and the channel map
start_keep(doc) ==
    /\ start_doc' = <<WithMotors(doc, settings)>>
    /\ UNCHANGED <<returned, plans>>
    /\ in_node' = "Source"
    /\ n' = IF processor = <<>> THEN Len(settings.pattern) ELSE n
    /\ processor' = IF processor = <<>>
                       THEN <<[n |-> Len(settings.pattern), buffer |-> <<>>]>>
                       ELSE processor
    /\ data_keys' = IF processor = <<>> THEN <<get_keys(settings)>>
                    ELSE data_keys
    /\ out_node' = "map"
    /\ run' = run + 1
    /\ k' = 0
    /\ windows' = <<>>
    /\ emitted' = <<>>
    /\ puts' = <<>>
    /\ raised' = None
    /\ called' = <<"start", None>>
    /\ UNCHANGED <<settings, raw_descriptors, dichro, observers, dropped>>

\* DichroStream.start: a new Source -> partition(n) -> map -> sink pipeline
\* with an empty buffer, n and data_keys taken from Settings; the document
\* goes on to LiveDispatcher.start with the motors of Settings
start(doc) ==
    /\ start_doc' = <<WithMotors(doc, settings)>>
    /\ UNCHANGED <<returned, plans>>
    /\ in_node' = "Source"
    /\ n' = Len(settings.pattern)
    /\ processor' = <<[n |-> Len(settings.pattern), buffer |-> <<>>]>>
    /\ data_keys' = <<get_keys(settings)>>
    /\ out_node' = "map"
    /\ run' = run + 1
    /\ k' = 0
    /\ windows' = <<>>
    /\ emitted' = <<>>
    /\ puts' = <<>>
    /\ raised' = None
    /\ called' = <<"start", None>>
    /\ UNCHANGED <<settings, raw_descriptors, dichro, observers, dropped>>

\* the start of a run of the count plan
Start == start([plan_name |-> "count"])

\* LiveDispatcher.descriptor: the raw descriptor is stored under its uid
Descriptor(desc) ==
    /\ raw_descriptors' = raw_descriptors \cup {desc}
    /\ raised' = None
    /\ called' = <<"descriptor", None>>
    /\ UNCHANGED <<start_doc, returned, plans>>
    /\ UNCHANGED <<settings, n, in_node, processor, out_node, data_keys,
                   dichro, observers, run, k, log>>

\* variant: sliding_window(n) for partition(n), the bundle keeps its last
\* n - 1 events
sliding_window(node, x) ==
    LET buffer == Append(node.buffer, x)
    IN  IF Len(buffer) = node.n
            THEN [node |-> [node EXCEPT !.buffer = Tail(buffer)],
                  out |-> <<buffer>>]
            ELSE [node |-> [node EXCEPT !.buffer = buffer], out |-> <<>>]

\* variant: a partition that puts the newest event first
partition_prepend(node, x) ==
    LET buffer == <<x>> \o node.buffer
    IN  IF Len(buffer) = node.n
            THEN [node |-> [node EXCEPT !.buffer = <<>>], out |-> <<buffer>>]
            ELSE [node |-> [node EXCEPT !.buffer = buffer], out |-> <<>>]

\* variant: a partition that hands the full buffer on and keeps it
partition_no_clear(node, x) ==
    LET buffer == Append(node.buffer, x)
    IN  IF Len(buffer) = node.n
            THEN [node |-> [node EXCEPT !.buffer = buffer], out |-> <<buffer>>]
            ELSE [node |-> [node EXCEPT !.buffer = buffer], out |-> <<>>]

\* partition(n).update(x): x joins the buffer; a buffer of n events is handed
\* on as one bundle and the node starts again with an empty buffer
partition(node, x) ==
    LET buffer == Append(node.buffer, x)
    IN  IF Len(buffer) = node.n
            THEN [node |-> [node EXCEPT !.buffer = <<>>], out |-> <<buffer>>]
            ELSE [node |-> [node EXCEPT !.buffer = buffer], out |-> <<>>]

\* variant: the bundle is reduced and published, but its derived event has
\* not reached the sink when emit returns
EmitPending(doc) ==
    LET part == partition(processor[1], doc)
        res == process_xmcd(part.out[1], data_keys[1], settings)
    IN  /\ processor' = <<part.node>>
        /\ k' = k + 1
        /\ IF part.out = <<>>
              THEN /\ raised' = None
                   /\ UNCHANGED <<dichro, windows, emitted, puts>>
              ELSE /\ windows' = Append(windows, [cache |-> part.out[1],
                                                  exc |-> res.exc])
                   /\ raised' = res.exc
                   /\ IF res.put = <<>>
                         THEN UNCHANGED <<dichro, puts>>
                         ELSE /\ dichro' = Put(res.put[1])
                              /\ puts' = Append(puts,
                                    [dev_t |-> res.put[1],
                                     src |-> Uids(part.out[1]),
                                     acq_done |-> run_subs(observers),
                                     delivered |-> Len(emitted)])
                   /\ UNCHANGED emitted
        /\ UNCHANGED <<settings, n, in_node, out_node, data_keys,
                       raw_descriptors, observers, run, dropped>>

\* variant: the derived event reaches the sink before the tuple is put to the
\* dichro device
EmitSinkFirst(doc) ==
    LET part == partition(processor[1], doc)
        res == process_xmcd(part.out[1], data_keys[1], settings)
    IN  /\ processor' = <<part.node>>
        /\ k' = k + 1
        /\ IF part.out = <<>>
              THEN /\ raised' = None
                   /\ UNCHANGED <<dichro, windows, emitted, puts>>
              ELSE /\ windows' = Append(windows, [cache |-> part.out[1],
                                                  exc |-> res.exc])
                   /\ raised' = res.exc
                   /\ IF res.put = <<>>
                         THEN UNCHANGED <<dichro, puts>>
                         ELSE /\ dichro' = Put(res.put[1])
                              /\ puts' = Append(puts,
                                    [dev_t |-> res.put[1],
                                     src |-> Uids(part.out[1]),
                                     acq_done |-> run_subs(observers),
                                     delivered |-> Len(emitted) + 1])
                   /\ IF res.ret = <<>>
                         THEN UNCHANGED emitted
                         ELSE emitted' = Append(emitted, res.ret[1])
        /\ UNCHANGED <<settings, n, in_node, out_node, data_keys,
                       raw_descriptors, observers, run, dropped>>

\* variant: a bundle whose reduction raised stays buffered but for its oldest
\* event
EmitRetry(doc) ==
    LET part == partition(processor[1], doc)
        res == process_xmcd(part.out[1], data_keys[1], settings)
    IN  /\ processor' =
              IF part.out # <<>> /\ res.exc # None
                  THEN <<[part.node EXCEPT !.buffer = Tail(part.out[1])]>>
                  ELSE <<part.node>>
        /\ k' = k + 1
        /\ IF part.out = <<>>
              THEN /\ raised' = None
                   /\ UNCHANGED <<dichro, windows, emitted, puts>>
              ELSE /\ windows' = Append(windows, [cache |-> part.out[1],
                                                  exc |-> res.exc])
                   /\ raised' = res.exc
                   /\ IF res.put = <<>>
                         THEN UNCHANGED <<dichro, puts>>
                         ELSE /\ dichro' = Put(res.put[1])
                              /\ puts' = Append(puts,
                                    [dev_t |-> res.put[1],
                                     src |-> Uids(part.out[1]),
                                     acq_done |-> run_subs(observers),
                                     delivered |-> Len(emitted)])
                   /\ IF res.ret = <<>>
                         THEN UNCHANGED emitted
                         ELSE emitted' = Append(emitted, res.ret[1])
        /\ UNCHANGED <<settings, n, in_node, out_node, data_keys,
                       raw_descriptors, observers, run, dropped>>

\* in_node.emit(doc): through partition, then map(process_xmcd) with its
\* put to the dichro device, then sink(process_event)
Emit(doc) ==
    LET part == partition(processor[1], doc)
        res == process_xmcd(part.out[1], data_keys[1], settings)
    IN  /\ processor' = <<part.node>>
        /\ k' = k + 1
        /\ IF part.out = <<>>
              THEN /\ raised' = None
                   /\ UNCHANGED <<dichro, windows, emitted, puts>>
              ELSE /\ windows' = Append(windows, [cache |-> part.out[1],
                                                  exc |-> res.exc])
                   /\ raised' = res.exc
                   /\ IF res.put = <<>>
                         THEN UNCHANGED <<dichro, puts>>
                         ELSE /\ dichro' = Put(res.put[1])
                              /\ puts' = Append(puts,
                                    [dev_t |-> res.put[1],
                                     src |-> Uids(part.out[1]),
                                     acq_done |-> run_subs(observers),
                                     delivered |-> Len(emitted)])
                   /\ IF res.ret = <<>>
                         THEN UNCHANGED emitted
                         ELSE emitted' = Append(emitted, res.ret[1])
        /\ UNCHANGED <<settings, n, in_node, out_node, data_keys,
                       raw_descriptors, observers, run, dropped>>

\* the stream of the event's descriptor is the primary one
IsPrimary(desc) == DescriptorDoc(desc).name = "primary"

\* variant: event() without the test of the descriptor's name
EventAnyName(desc, r) ==
    /\ called' = <<"event", desc>>
    /\ UNCHANGED <<start_doc, returned, plans>>
    /\ IF desc \notin raw_descriptors
          THEN /\ raised' = "KeyError"
               /\ UNCHANGED <<settings, stream, dichro, observers, run, k, log>>
       ELSE IF in_node = None
          THEN /\ raised' = "AttributeError"
               /\ UNCHANGED <<settings, stream, dichro, observers, run, k, log>>
       ELSE Emit([descriptor |-> desc, uid |-> <<run, k>>,
                  data |-> EventData(desc, r)])

\* DichroStream.event: the event's descriptor is looked up; an event of the
\* primary stream goes into in_node, any other is dropped
Event(desc, r) ==
    /\ called' = <<"event", desc>>
    /\ UNCHANGED <<start_doc, returned, plans>>
    /\ IF desc \notin raw_descriptors
          THEN /\ raised' = "KeyError"
               /\ UNCHANGED <<settings, stream, dichro, observers, run, k, log>>
       ELSE IF ~IsPrimary(desc)
          THEN /\ raised' = None
               /\ UNCHANGED <<settings, stream, dichro, observers, run, k, log>>
       ELSE IF in_node = None
          THEN /\ raised' = "AttributeError"
               /\ UNCHANGED <<settings, stream, dichro, observers, run, k, log>>
       ELSE Emit([descriptor |-> desc, uid |-> <<run, k>>,
                  data |-> EventData(desc, r)])

\* what every variant of stop does to the LiveDispatcher and the logs
StopRest ==
    /\ in_node' = None
    /\ out_node' = None
    /\ data_keys' = <<>>
    /\ raw_descriptors' = {}
    /\ dropped' = IF processor = <<>> THEN <<>> ELSE Uids(processor[1].buffer)
    /\ called' = <<"stop", None>>
    /\ UNCHANGED <<start_doc, returned, plans>>
    /\ UNCHANGED <<n, observers, run, k>>

\* variant: a stop that pushes the partial buffer through the reduction
StopFlush ==
    LET flush == processor # <<>> /\ processor[1].buffer # <<>>
        res == process_xmcd(processor[1].buffer, data_keys[1], settings)
    IN  /\ StopRest
        /\ processor' = <<>>
        /\ settings' = [settings EXCEPT !.positioner1 = None,
                                        !.positioner2 = None]
        /\ IF ~flush
              THEN raised' = None /\ UNCHANGED <<dichro, windows, emitted, puts>>
              ELSE /\ raised' = res.exc
                   /\ windows' = Append(windows,
                         [cache |-> processor[1].buffer, exc |-> res.exc])
                   /\ IF res.put = <<>>
                         THEN UNCHANGED <<dichro, puts>>
                         ELSE /\ dichro' = Put(res.put[1])
                              /\ puts' = Append(puts,
                                    [dev_t |-> res.put[1],
                                     src |-> Uids(processor[1].buffer),
                                     acq_done |-> run_subs(observers),
                                     delivered |-> Len(emitted)])
                   /\ IF res.ret = <<>>
                         THEN UNCHANGED emitted
                         ELSE emitted' = Append(emitted, res.ret[1])

\* variant: a stop that leaves the partition node in place
StopKeep ==
    /\ StopRest
    /\ processor' = processor
    /\ settings' = [settings EXCEPT !.positioner1 = None, !.positioner2 = None]
    /\ raised' = None
    /\ UNCHANGED <<dichro, windows, emitted, puts>>

\* variant: a stop that puts Settings back to the class defaults, without
\* positioners
StopDefaults ==
    /\ StopRest
    /\ processor' = <<>>
    /\ settings' = [DefaultSettings EXCEPT !.positioner1 = None]
    /\ raised' = None
    /\ UNCHANGED <<dichro, windows, emitted, puts>>

\* variant: a stop that puts the dichro device back to its initial values
StopResetDevice ==
    /\ StopRest
    /\ processor' = <<>>
    /\ settings' = [settings EXCEPT !.positioner1 = None, !.positioner2 = None]
    /\ raised' = None
    /\ dichro' = DichroDevice
    /\ UNCHANGED <<windows, emitted, puts>>

\* variant: a stop that puts a closing tuple of zeros to the dichro device
StopPublish ==
    /\ StopRest
    /\ processor' = <<>>
    /\ settings' = [settings EXCEPT !.positioner1 = None, !.positioner2 = None]
    /\ raised' = None
    /\ dichro' = Put(<<NaN, NaN, 0, 0>>)
    /\ puts' = Append(puts, [dev_t |-> <<NaN, NaN, 0, 0>>,
                             src |-> <<>>,
                             acq_done |-> run_subs(observers),
                             delivered |-> Len(emitted)])
    /\ UNCHANGED <<windows, emitted>>

\* DichroStream.stop: the pipeline and data_keys are dropped, the positioner
\* names of Settings are cleared, and LiveDispatcher.stop clears its caches
Stop ==
    /\ in_node' = None
    /\ out_node' = None
    /\ processor' = <<>>
    /\ data_keys' = <<>>
    /\ settings' = [settings EXCEPT !.positioner1 = None, !.positioner2 = None]
    /\ raw_descriptors' = {}
    /\ raised' = None
    /\ dropped' = IF processor = <<>> THEN <<>> ELSE Uids(processor[1].buffer)
    /\ called' = <<"stop", None>>
    /\ UNCHANGED <<start_doc, returned, plans>>
    /\ UNCHANGED <<n, dichro, observers, run, k, windows, emitted, puts>>

\* ------------------------------------------------------------ environment
\* The stream is subscribed to the RunEngine, which delivers the documents of
\* a run in order: descriptors only inside a run, and Settings is written by
\* the staging of a plan and by pr_setup, both between runs.  Every event
\* carries the same counts here; SpecReduce varies them.
Next ==
    \/ \E name \in {"energy", None} : Idle /\ SetPositioner(1, name)
    \/ \E name \in {"th", None} : Idle /\ SetPositioner(2, name)
    \/ \E name \in DetectorNames : Idle /\ SetDetector(name)
    \/ \E p \in Patterns : Idle /\ SetPattern(p)
    \/ run < MaxRuns /\ Start
    \/ \E desc \in DescriptorIds : ~Idle /\ Descriptor(desc)
    \/ \E desc \in DescriptorIds : k < MaxEvents /\ Event(desc, Counts)
    \/ Stop

Spec == Init /\ [][Next]_vars

\* The reduction on its own: one run under each configuration Settings can
\* hold when the run starts, fed events of either primary descriptor and of
\* every reading.
SettingsSpace ==
    [positioner1 : {None, "energy"}, positioner2 : {None, "th"},
     monitor : MonitorNames, detector : DetectorNames,
     transmission : BOOLEAN, pattern : Patterns]

InitReduce == settings \in SettingsSpace /\ InitStream /\ InitPlans

PrimaryIds == {desc \in DescriptorIds : IsPrimary(desc)}

NextReduce ==
    \/ Idle /\ run = 0 /\ Start
    \/ \E desc \in PrimaryIds : ~Idle /\ Descriptor(desc)
    \/ \E desc \in PrimaryIds, r \in Readings : k < MaxEvents /\ Event(desc, r)

SpecReduce == InitReduce /\ [][NextReduce]_vars

\* The dichro device and its observers: one run of up to SinkEvents primary
\* events under either pattern, with observers that subscribe before or
\* during the run (monitor_during_decorator subscribes after the start
\* document).
SinkEvents == 8

NextSink ==
    \/ \E o \in Observers : Subscribe(o)
    \/ \E p \in Patterns : Idle /\ run = 0 /\ SetPattern(p)
    \/ Idle /\ run = 0 /\ Start
    \/ \E desc \in PrimaryIds : ~Idle /\ desc \notin raw_descriptors
                                  /\ Descriptor(desc)
    \/ \E desc \in PrimaryIds : k < SinkEvents /\ ~Idle /\ Event(desc, Counts)
    \/ ~Idle /\ Stop

SpecSink == Init /\ [][NextSink]_vars

\* Settings under every writer: any attribute may be written at any time,
\* also while a run is open.
SettingsEvents == 1

NextSettings ==
    \/ \E name \in {"energy", None} : SetPositioner(1, name)
    \/ \E name \in {"th", None} : SetPositioner(2, name)
    \/ \E name \in DetectorNames : SetDetector(name)
    \/ \E name \in MonitorNames : SetMonitor(name)
    \/ \E b \in BOOLEAN : SetTransmission(b)
    \/ \E p \in Patterns : SetPattern(p)
    \/ Idle /\ run < MaxRuns /\ Start
    \/ ~Idle /\ "d1" \notin raw_descriptors /\ Descriptor("d1")
    \/ ~Idle /\ k < SettingsEvents /\ Event("d1", Counts)
    \/ ~Idle /\ Stop

SpecSettings == Init /\ [][NextSettings]_vars

\* Settings written while a run is open: the pattern and the channel names
\* change between any two documents of the run.
NextLive ==
    \/ \E name \in {"energy", None} : SetPositioner(1, name)
    \/ \E name \in {"th", None} : SetPositioner(2, name)
    \/ \E name \in DetectorNames : SetDetector(name)
    \/ \E p \in Patterns : SetPattern(p)
    \/ Idle /\ run < MaxRuns /\ Start
    \/ ~Idle /\ "d1" \notin raw_descriptors /\ Descriptor("d1")
    \/ ~Idle /\ k < MaxEvents /\ Event("d1", Counts)
    \/ ~Idle /\ Stop

SpecLive == Init /\ [][NextLive]_vars

\* A start document that arrives while a run is open (no stop document in
\* between), with Settings written at any time.
NextRestart ==
    \/ \E name \in {"energy", None} : SetPositioner(1, name)
    \/ \E p \in Patterns : SetPattern(p)
    \/ run < MaxRuns /\ Start
    \/ ~Idle /\ "d1" \notin raw_descriptors /\ Descriptor("d1")
    \/ ~Idle /\ k < MaxEvents /\ Event("d1", Counts)
    \/ ~Idle /\ Stop

SpecRestart == Init /\ [][NextRestart]_vars

\* Documents that arrive outside a run: descriptors and events are delivered
\* at any time, before the first start and after a stop as well.
NextIdle ==
    \/ Idle /\ run < MaxRuns /\ Start
    \/ \E desc \in PrimaryIds : desc \notin raw_descriptors /\ Descriptor(desc)
    \/ \E desc \in DescriptorIds : (Idle \/ k < MaxEvents)
                                     /\ Event(desc, Counts)
    \/ ~Idle /\ Stop

SpecIdle == Init /\ [][NextIdle]_vars

\* The start document: runs of any plan under any positioner names.
NextStart ==
    \/ \E name \in PositionerNames \cup {None} : Idle /\ SetPositioner(1, name)
    \/ \E name \in PositionerNames \cup {None} : Idle /\ SetPositioner(2, name)
    \/ \E doc \in StartDocs : Idle /\ run < MaxRuns /\ start(doc)
    \/ ~Idle /\ Stop

SpecStart == Init /\ [][NextStart]_vars

\* Settings.get_keys on its own: called under every combination of absent
\* and present channel names.
AnySettings ==
    [positioner1 : PositionerNames \cup {None},
     positioner2 : PositionerNames \cup {None},
     monitor : MonitorNames \cup {None},
     detector : DetectorNames \cup {None},
     transmission : {TRUE}, pattern : Patterns]

InitKeys == settings \in AnySettings /\ InitStream /\ InitPlans

\* a call of Settings.get_keys
GetKeys ==
    /\ returned' = <<get_keys(settings)>>
    /\ raised' = None
    /\ called' = <<"get_keys", None>>
    /\ UNCHANGED <<settings, stream, dichro, observers, run, k, log>>
    /\ UNCHANGED <<start_doc, plans>>

NextKeys == GetKeys

SpecKeys == InitKeys /\ [][NextKeys]_vars

\* ------------------------------------------------------------------ plans
\* every action of a plan leaves the stream, Settings and the device alone
PlanFrame == UNCHANGED callback

MaxPoints == 2      \* scan points of one scan

\* the positions a scan point puts the scanned motor at
StepValues == {1, 2}

\* pr_setup after pr_setup.config(): a positioner with its center and offset
PrSetups ==
    [positioner : {"pzt", "th"}, offset : {1, 3}, center : {0, 10},
     dichro_steps : Patterns]

\* ascan(..., dichro=is_dichro, per_step=per_step) up to its scan: flag.dichro
\* and, for a dichro scan, flag.dichro_steps = center + step * offset; the
\* per_step hook is the one the caller gave (here bluesky's one_nd_step), or
\* else one_local_step for a fixq or dichro scan and None, for which bluesky
\* takes one_nd_step, for any other
Ascan(is_dichro, per_step) ==
    /\ scan.per_step = None
    /\ flag' = [flag EXCEPT
                  !.dichro = is_dichro,
                  !.dichro_steps =
                      IF is_dichro
                          THEN [i \in 1..Len(pr_setup.dichro_steps) |->
                                  pr_setup.center
                                    + pr_setup.dichro_steps[i] * pr_setup.offset]
                          ELSE @]
    /\ scan' = [per_step |-> IF per_step # None THEN per_step
                             ELSE IF flag.fixq \/ is_dichro THEN "one_local_step"
                             ELSE "one_nd_step",
                point |-> 0]
    /\ msgs' = <<>>
    /\ UNCHANGED <<pr_setup, devices, counters, configure_counts,
                   stage_dichro, subs>>
    /\ PlanFrame

\* a message to the RunEngine
Mv(obj, pos) == [msg |-> "mv", obj |-> obj, pos |-> pos]
Reading == [msg |-> "trigger_and_read"]

\* variant: every move first, then one reading
dichro_steps_one_reading(positioner, steps) ==
    [i \in 1..Len(steps) |-> Mv(positioner, steps[i])] \o <<Reading>>

\* dichro_steps: for each pos of flag.dichro_steps a move of
\* pr_setup.positioner, then a reading
dichro_steps(positioner, steps) ==
    [i \in 1..(2 * Len(steps)) |->
        IF i % 2 = 1 THEN Mv(positioner, steps[(i + 1) \div 2]) ELSE Reading]

\* one_local_step: the motors of the step move, then the readings
one_local_step(step) ==
    <<Mv("motor", step)>>
        \o (IF flag.dichro
               THEN dichro_steps(pr_setup.positioner, flag.dichro_steps)
               ELSE <<Reading>>)

\* bluesky's one_nd_step: the motors of the step move, then one reading
one_nd_step(step) == <<Mv("motor", step), Reading>>

\* scan: the per_step hook runs for the next scan point
PerStep(step) ==
    /\ scan.per_step # None
    /\ scan.point < MaxPoints
    /\ msgs' = Append(msgs, IF scan.per_step = "one_local_step"
                                THEN one_local_step(step)
                                ELSE one_nd_step(step))
    /\ scan' = [scan EXCEPT !.point = @ + 1]
    /\ UNCHANGED <<flag, pr_setup, devices, counters, configure_counts,
                   stage_dichro, subs>>
    /\ PlanFrame

\* the scan plan is exhausted
EndScan ==
    /\ scan.per_step # None
    /\ scan' = [per_step |-> None, point |-> 0]
    /\ UNCHANGED <<flag, pr_setup, msgs, devices, counters, configure_counts,
                   stage_dichro, subs>>
    /\ PlanFrame

InitScan ==
    /\ settings = DefaultSettings
    /\ InitStream
    /\ flag = [dichro |-> FALSE, fixq |-> FALSE, dichro_steps |-> None]
    /\ pr_setup \in PrSetups
    /\ scan = [per_step |-> None, point |-> 0]
    /\ msgs = <<>>
    /\ devices = [preset_monitor |-> [det \in Detectors |-> 1],
                  preset |-> 0, gate |-> "N"]
    /\ counters = [monitor |-> "Time"]
    /\ configure_counts = NotEntered
    /\ stage_dichro = NotEntered
    /\ subs = {}

NextScan ==
    \/ \E is_dichro \in BOOLEAN, per_step \in {None, "one_nd_step"} :
          Ascan(is_dichro, per_step)
    \/ \E step \in StepValues : PerStep(step)
    \/ EndScan

SpecScan == InitScan /\ [][NextScan]_vars

\* variant: a setter of pr_setup.dichro_steps that leaves Settings alone
SetDichroStepsLocal(value) ==
    /\ pr_setup' = [pr_setup EXCEPT !.dichro_steps = value]
    /\ raised' = None
    /\ called' = <<"setattr", None>>
    /\ UNCHANGED <<settings, stream, dichro, observers, run, k, log,
                   start_doc, returned>>
    /\ UNCHANGED <<flag, scan, msgs, devices, counters, configure_counts,
                   stage_dichro, subs>>

\* the setter of pr_setup.dichro_steps: the value is kept and copied to the
\* pattern of Settings
SetDichroSteps(value) ==
    /\ pr_setup' = [pr_setup EXCEPT !.dichro_steps = value]
    /\ settings' = [settings EXCEPT !.pattern = value]
    /\ raised' = None
    /\ called' = <<"setattr", None>>
    /\ UNCHANGED <<stream, dichro, observers, run, k, log, start_doc, returned>>
    /\ UNCHANGED <<flag, scan, msgs, devices, counters, configure_counts,
                   stage_dichro, subs>>

\* the readings among the messages of a scan point
Taken(point) == SelectSeq(point, LAMBDA m : m.msg = "trigger_and_read")

\* the readings the scan has taken so far
AllTaken == SumSeq([j \in 1..Len(msgs) |-> Len(Taken(msgs[j]))])

\* Dichro scans one after the other, pr_setup.dichro_steps assigned between
\* them: the scan is set up, its run is opened, each reading of a scan point
\* becomes one primary event of the stream, and the run is closed when every
\* reading has been delivered.
InitDichro ==
    /\ settings = DefaultSettings
    /\ InitStream
    /\ flag = [dichro |-> FALSE, fixq |-> FALSE, dichro_steps |-> None]
    /\ pr_setup = [positioner |-> "pzt", offset |-> 1, center |-> 10,
                   dichro_steps |-> <<1, -1, -1, 1>>]
    /\ scan = [per_step |-> None, point |-> 0]
    /\ msgs = <<>>
    /\ devices = [preset_monitor |-> [det \in Detectors |-> 1],
                  preset |-> 0, gate |-> "N"]
    /\ counters = [monitor |-> "Time"]
    /\ configure_counts = NotEntered
    /\ stage_dichro = NotEntered
    /\ subs = {}

NextDichro ==
    \/ \E p \in Patterns : Idle /\ scan.per_step = None /\ SetDichroSteps(p)
    \/ \E per_step \in {None, "one_nd_step"} :
          Idle /\ run < MaxRuns /\ Ascan(TRUE, per_step)
    \/ Idle /\ scan.per_step # None /\ scan.point = 0 /\ Start
    \/ ~Idle /\ "d1" \notin raw_descriptors /\ Descriptor("d1")
    \/ \E step \in StepValues : ~Idle /\ PerStep(step)
    \/ ~Idle /\ k < AllTaken /\ Event("d1", Counts)
    \/ ~Idle /\ scan.point > 0 /\ k = AllTaken /\ Stop
    \/ Idle /\ scan.point > 0 /\ EndScan

SpecDichro == InitDichro /\ [][NextDichro]_vars

\* ------------------------------------------------ configure_counts_wrapper
\* the count_time a plan may be given, an optional number: <<>> is None,
\* <<t>> is monitor counts (t < 0), zero or seconds (t > 0)
CountTimes == {<<>>, <<-2>>, <<0>>, <<2>>}

\* a dictionary with no key
NoTimes == [det \in {} |-> 0]

\* the wrapper has returned or raised
Ended(w) == w.pc \in {"idle", "done", "raised"}

\* configure_counts_wrapper(plan, detectors, count_time) is entered: with
\* count_time None the plan runs bare, else setup() comes first
ConfigureCounts(detectors, count_time) ==
    /\ Ended(configure_counts)
    /\ configure_counts' =
          [pc |-> IF count_time = <<>> THEN "plan" ELSE "setup",
           count_time |-> count_time,
           detectors |-> detectors,
           original_times |-> NoTimes,
           entry |-> devices,
           setup |-> devices,
           exc |-> None]
    /\ UNCHANGED <<flag, pr_setup, scan, msgs, devices, counters,
                   stage_dichro, subs>>
    /\ PlanFrame

\* setup(): monitor counts go to the preset of the monitor's scaler channel,
\* which turns its gate to "Y"; seconds go to the preset_monitor of every
\* detector after its value is put into original_times; zero raises, and so
\* do monitor counts when the monitor is "Time"
Setup ==
    LET w == configure_counts
        t == w.count_time[1]
        after ==
            IF t < 0
                THEN [devices EXCEPT !.preset = -t, !.gate = "Y"]
                ELSE [devices EXCEPT !.preset_monitor =
                        [det \in Detectors |->
                            IF det \in w.detectors THEN t ELSE @[det]]]
    IN  /\ w.pc = "setup"
        /\ IF t = 0 \/ (t < 0 /\ counters.monitor = "Time")
              THEN /\ configure_counts' =
                          [w EXCEPT !.pc = "reset", !.exc = "ValueError"]
                   /\ UNCHANGED devices
              ELSE /\ devices' = after
                   /\ configure_counts' =
                          [w EXCEPT
                              !.pc = "plan",
                              !.setup = after,
                              !.original_times =
                                  IF t < 0 THEN NoTimes
                                  ELSE [det \in w.detectors |->
                                          devices.preset_monitor[det]]]
        /\ UNCHANGED <<flag, pr_setup, scan, msgs, counters, stage_dichro,
                       subs>>
        /\ PlanFrame

\* the wrapped plan runs to its end or raises; finalize_wrapper then goes on
\* with reset(), the bare plan of count_time None ends the wrapper
WrappedPlan(exc) ==
    LET w == configure_counts
    IN  /\ w.pc = "plan"
        /\ configure_counts' =
              [w EXCEPT !.exc = exc,
                        !.pc = IF w.count_time # <<>> THEN "reset"
                               ELSE IF exc = None THEN "done" ELSE "raised"]
        /\ UNCHANGED <<flag, pr_setup, scan, msgs, devices, counters,
                       stage_dichro, subs>>
        /\ PlanFrame

\* reset(): for monitor counts the gate of the monitor's scaler channel goes
\* to "N" (with the monitor "Time", counters.monitor_detector is a list and
\* its .channels raises); else every preset_monitor of original_times gets
\* its value back
Reset ==
    LET w == configure_counts
        no_channel == w.count_time[1] < 0 /\ counters.monitor = "Time"
    IN  /\ w.pc = "reset"
        /\ devices' =
              IF no_channel THEN devices
              ELSE IF w.count_time[1] < 0
                  THEN [devices EXCEPT !.gate = "N"]
                  ELSE [devices EXCEPT !.preset_monitor =
                          [det \in Detectors |->
                              IF det \in DOMAIN w.original_times
                                  THEN w.original_times[det] ELSE @[det]]]
        /\ configure_counts' =
              [w EXCEPT !.pc = IF w.exc = None /\ ~no_channel
                                  THEN "done" ELSE "raised",
                        !.exc = IF no_channel THEN "AttributeError" ELSE @]
        /\ UNCHANGED <<flag, pr_setup, scan, msgs, counters, stage_dichro,
                       subs>>
        /\ PlanFrame

InitCounts ==
    /\ settings = DefaultSettings
    /\ InitStream
    /\ flag = [dichro |-> FALSE, fixq |-> FALSE, dichro_steps |-> None]
    /\ pr_setup = [positioner |-> None, offset |-> None, center |-> None,
                   dichro_steps |-> <<1, -1, -1, 1>>]
    /\ scan = [per_step |-> None, point |-> 0]
    /\ msgs = <<>>
    /\ devices \in [preset_monitor : [Detectors -> {1, 2}],
                    preset : {0, 2}, gate : {"Y", "N"}]
    /\ counters \in [monitor : MonitorNames]
    /\ configure_counts = NotEntered
    /\ stage_dichro = NotEntered
    /\ subs = {}

NextCounts ==
    \/ \E detectors \in SUBSET Detectors, count_time \in CountTimes :
          ConfigureCounts(detectors, count_time)
    \/ Setup
    \/ \E exc \in {None, "Exception"} : WrappedPlan(exc)
    \/ Reset

SpecCounts == InitCounts /\ [][NextCounts]_vars

\* ---------------------------------------------------- stage_dichro_wrapper
MaxSubs == 2        \* subscriptions the RunEngine holds at one time

\* the motors of the plan, by name: count passes [None], a scan its motors
StagePositioners == {<<None>>, <<"energy">>, <<"th", "energy">>}

\* counters.plot_names: the hinted fields of the selected detectors
PlotNames == {<<>>, <<"4idhI1">>, <<"4idhI2", "4idhI1">>}

\* the moves that fail: of selectAC/selectDC and of the PZT
Moves == {"select", "pzt"}

\* the token the RunEngine gives to a new subscription
Token == CHOOSE t \in 1..(Cardinality(subs) + 1) : t \notin subs

\* the wrapper before its first call (a token is <<>> for None and <<t>> for
\* t; unsubscribe holds the tokens of the unsubscribe messages of the call),
\* and what it acts on: the kind of the
\* hinted and of the lock-in devices, selectAC/selectDC and the PZT of the
\* phase retarder, and whether bec and dichro_bec plot (both do after import)
StageIdle ==
    [pc |-> "idle", dichro |-> FALSE, lockin |-> FALSE, positioner |-> <<>>,
     dichro_token |-> <<>>, exc |-> None, unsubscribe |-> <<>>,
     kinds |-> [hinted |-> "hinted", lockin |-> "normal"],
     select |-> "DC", pzt |-> 0,
     plots |-> [bec |-> TRUE, dichro_bec |-> TRUE]]

\* stage_dichro_wrapper(plan, dichro, lockin, positioner) is entered
StageDichro(is_dichro, lockin, positioner) ==
    /\ Ended(stage_dichro)
    /\ Cardinality(subs) < MaxSubs
    /\ stage_dichro' = [stage_dichro EXCEPT
                          !.pc = "stage",
                          !.dichro = is_dichro,
                          !.lockin = lockin,
                          !.positioner = positioner,
                          !.dichro_token = <<>>,
                          !.unsubscribe = <<>>,
                          !.exc = None]
    /\ UNCHANGED <<flag, pr_setup, scan, msgs, devices, counters,
                   configure_counts, subs>>
    /\ PlanFrame

\* _stage(): dichro and lockin together raise; lockin changes the kinds,
\* raises without a phase retarder or with the theta motor, and moves
\* selectAC; dichro writes the positioners, the detector and the monitor to
\* Settings, swaps the plots, subscribes plot_dichro_settings and keeps the
\* token, then reads pr_setup.positioner.name and moves a PZT to its center
Stage(fails) ==
    LET w == stage_dichro
        both == w.dichro /\ w.lockin
        is_lockin == w.lockin /\ ~both
        is_dichro == w.dichro /\ ~both
        no_pr == pr_setup.positioner = None
        is_pzt == ~no_pr /\ pr_setup.positioner = "pzt"
        lockin_exc == IF no_pr THEN "ValueError"
                      ELSE IF pr_setup.positioner = "th" THEN "TypeError"
                      ELSE IF "select" \in fails THEN "FailedStatus"
                      ELSE None
        dichro_exc == IF no_pr THEN "AttributeError"
                      ELSE IF is_pzt /\ "pzt" \in fails THEN "FailedStatus"
                      ELSE None
        exc == IF both THEN "ValueError"
               ELSE IF w.lockin THEN lockin_exc
               ELSE IF w.dichro THEN dichro_exc
               ELSE None
        named == [settings EXCEPT
                    !.positioner1 = w.positioner[1],
                    !.positioner2 = IF Len(w.positioner) > 1
                                        THEN w.positioner[2] ELSE @]
    IN  /\ w.pc = "stage"
        /\ settings' =
              IF is_dichro
                  THEN [named EXCEPT
                          !.detector = IF counters.plot_names # <<>>
                                           THEN counters.plot_names[1] ELSE @,
                          !.monitor = counters.monitor]
                  ELSE settings
        /\ subs' = IF is_dichro THEN subs \cup {Token} ELSE subs
        /\ stage_dichro' = [w EXCEPT
              !.pc = IF exc = None THEN "plan" ELSE "unstage",
              !.exc = exc,
              !.dichro_token = IF is_dichro THEN <<Token>> ELSE @,
              !.kinds = IF is_lockin
                            THEN [hinted |-> "normal", lockin |-> "hinted"]
                            ELSE @,
              !.select = IF is_lockin /\ lockin_exc = None THEN "AC" ELSE @,
              !.pzt = IF is_dichro /\ is_pzt /\ dichro_exc = None
                          THEN pr_setup.center ELSE @,
              !.plots = IF is_dichro THEN [bec |-> FALSE, dichro_bec |-> TRUE]
                            ELSE @]
        /\ UNCHANGED <<flag, pr_setup, scan, msgs, devices, counters,
                       configure_counts>>
        /\ called' = IF is_dichro THEN <<"setattr", None>> ELSE called
        /\ raised' = IF is_dichro THEN None ELSE raised
        /\ UNCHANGED <<stream, dichro, observers, run, k, log, start_doc,
                       returned>>

\* the wrapped plan runs to its end or raises; finalize_wrapper goes on with
\* _unstage()
StagedPlan(exc) ==
    /\ stage_dichro.pc = "plan"
    /\ stage_dichro' = [stage_dichro EXCEPT !.pc = "unstage", !.exc = exc]
    /\ UNCHANGED <<flag, pr_setup, scan, msgs, devices, counters,
                   configure_counts, subs>>
    /\ PlanFrame

\* _unstage(): lockin puts the kinds back and moves selectDC; dichro reads
\* pr_setup.positioner.name, moves a PZT off its center, and only then
\* unsubscribes the token and swaps the plots back; what _unstage() raises
\* ends the wrapper at once
Unstage(fails) ==
    LET w == stage_dichro
        no_pr == pr_setup.positioner = None
        is_pzt == ~no_pr /\ pr_setup.positioner = "pzt"
        lockin_exc == IF ~w.lockin THEN None
                      ELSE IF no_pr THEN "AttributeError"
                      ELSE IF "select" \in fails THEN "FailedStatus"
                      ELSE None
        dichro_exc == IF ~w.dichro \/ lockin_exc # None THEN None
                      ELSE IF no_pr THEN "AttributeError"
                      ELSE IF is_pzt /\ "pzt" \in fails THEN "FailedStatus"
                      ELSE None
        exc == IF lockin_exc # None THEN lockin_exc ELSE dichro_exc
        unsubscribes == w.dichro /\ exc = None
    IN  /\ w.pc = "unstage"
        /\ subs' = IF unsubscribes
                      THEN subs \ {w.dichro_token[j] :
                                      j \in DOMAIN w.dichro_token}
                      ELSE subs
        /\ stage_dichro' = [w EXCEPT
              !.pc = IF exc = None /\ w.exc = None THEN "done" ELSE "raised",
              !.exc = IF exc # None THEN exc ELSE @,
              !.unsubscribe = IF unsubscribes
                                  THEN Append(@, w.dichro_token) ELSE @,
              !.kinds = IF w.lockin
                            THEN [hinted |-> "hinted", lockin |-> "normal"]
                            ELSE @,
              !.select = IF w.lockin /\ lockin_exc = None THEN "DC" ELSE @,
              !.pzt = IF w.dichro /\ is_pzt /\ exc = None
                          THEN pr_setup.center + pr_setup.offset ELSE @,
              !.plots = IF unsubscribes THEN [bec |-> TRUE, dichro_bec |-> FALSE]
                               ELSE @]
        /\ UNCHANGED <<flag, pr_setup, scan, msgs, devices, counters,
                       configure_counts>>
        /\ PlanFrame

\* pr_setup as the module leaves it (no phase retarder selected), or after
\* pr_setup.config()
InitStage ==
    /\ settings = DefaultSettings
    /\ InitStream
    /\ flag = [dichro |-> FALSE, fixq |-> FALSE, dichro_steps |-> None]
    /\ \/ pr_setup = [positioner |-> None, offset |-> None, center |-> None,
                      dichro_steps |-> <<1, -1, -1, 1>>]
       \/ pr_setup \in [positioner : {"pzt", "th"}, offset : {1},
                        center : {10}, dichro_steps : {<<1, -1, -1, 1>>}]
    /\ scan = [per_step |-> None, point |-> 0]
    /\ msgs = <<>>
    /\ devices = [preset_monitor |-> [det \in Detectors |-> 1],
                  preset |-> 0, gate |-> "N"]
    /\ counters \in [monitor : MonitorNames, plot_names : PlotNames]
    /\ configure_counts = NotEntered
    /\ stage_dichro = StageIdle
    /\ subs = {}

NextStage ==
    \/ \E is_dichro \in BOOLEAN, lockin \in BOOLEAN,
          positioner \in StagePositioners :
          StageDichro(is_dichro, lockin, positioner)
    \/ \E fails \in SUBSET Moves : Stage(fails)
    \/ \E exc \in {None, "Exception"} : StagedPlan(exc)
    \/ \E fails \in SUBSET Moves : Unstage(fails)

SpecStage == InitStage /\ [][NextStage]_vars

\* Dichro plans one after the other, each with its run: the stream gets the
\* start document after the staging and, once the run is open, its stop
\* document before the wrapped plan ends or raises.
NextPlans ==
    \/ \E positioner \in StagePositioners :
          Idle /\ StageDichro(TRUE, FALSE, positioner)
    \/ \E fails \in SUBSET Moves : Stage(fails)
    \/ /\ stage_dichro.pc = "plan"
       /\ Idle
       /\ called = <<"setattr", None>>
       /\ run < MaxRuns
       /\ Start
    \/ ~Idle /\ Stop
    \/ \E exc \in {None, "Exception"} : Idle /\ StagedPlan(exc)
    \/ \E fails \in SUBSET Moves : Unstage(fails)

SpecPlans == InitStage /\ [][NextPlans]_vars

\* ----------------------------------------------------------------- claims
\* the bundles completed since the last start that process_xmcd reduced
\* without raising
Reduced == SelectSeq(windows, LAMBDA w : w.exc = None)

\* the uids of the primary events with arrival indices (j-1)*N .. j*N - 1 of
\* the current run, in arrival order
Block(j) == [i \in 1..n |-> <<run, (j - 1) * n + i - 1>>]

\* C1 as stated: within a run, after k primary events exactly floor(k / N)
\* derived events have been emitted downstream.
C1_FloorEmitted == ~Idle => Len(emitted) = k \div n

\* C1, amended: within a run, after k primary events exactly floor(k / N)
\* bundles have been completed, one derived event has been emitted for each
\* completed bundle except those whose reduction raised, and the trailing
\* k mod N events are buffered and have produced no output.
C1_FloorWindows ==
    ~Idle =>
        /\ processor[1].n = n
        /\ Len(windows) = k \div n
        /\ Len(emitted) = Len(Reduced)
        /\ Len(processor[1].buffer) = k % n
        /\ \A j \in 1..Len(emitted) : Len(emitted[j].src) = n

\* a run with a derived event emitted and a trailing partial bundle
C1_Witness ==
    /\ ~Idle
    /\ k > n
    /\ k % n # 0
    /\ Len(emitted) = 1

\* C2 as stated: the j-th derived event of a run is reduced from exactly the
\* primary events with arrival indices j*N .. j*N + N - 1, in arrival order.
C2_DerivedBlocks ==
    \A j \in 1..Len(emitted) : emitted[j].src = Block(j)

\* C2, amended: the j-th completed bundle of a run consists of exactly the
\* primary events with arrival indices j*N .. j*N + N - 1, in arrival order
\* (contiguous, non-overlapping, nothing skipped, duplicated or reordered), and
\* the derived events are, in the same order, the reductions of the bundles
\* whose reduction did not raise.
C2_WindowBlocks ==
    /\ \A j \in 1..Len(windows) : Uids(windows[j].cache) = Block(j)
    /\ Len(emitted) = Len(Reduced)
    /\ \A j \in 1..Len(emitted) : emitted[j].src = Uids(Reduced[j].cache)

\* the only derived event of the run comes from its second bundle
C2_Witness ==
    /\ Len(windows) = 2
    /\ windows[1].exc # None
    /\ Len(emitted) = 1
    /\ emitted[1].src = Block(2)

\* the partition node holds a partial bundle
Partial == processor # <<>> /\ Len(processor[1].buffer) > 0

\* C3: a stop that finds a partial bundle buffered emits no derived event and
\* does not publish to the dichro device, raises nothing and drops the
\* buffer; and no bundle ever holds an event of an earlier run.
C3_PartialDropped ==
    /\ [][(called' = <<"stop", None>> /\ Partial) =>
            /\ emitted' = emitted
            /\ puts' = puts
            /\ dichro' = dichro
            /\ windows' = windows
            /\ raised' = None
            /\ processor' = <<>>]_vars
    /\ [](\A j \in 1..Len(windows) : \A i \in 1..Len(windows[j].cache) :
            /\ windows[j].cache[i].uid[1] = run
            /\ windows[j].cache[i].uid \notin Range(dropped))

\* a later run has completed a bundle after a stop dropped a partial one
C3_Witness ==
    /\ dropped # <<>>
    /\ run = 2
    /\ windows # <<>>
    /\ dropped[1][1] = 1

\* C4 as stated: after a stop the buffer is gone, and in the next run the
\* first derived event is emitted on the N-th primary event.
C4_FirstDerived ==
    /\ Idle => processor = <<>>
    /\ ~Idle =>
        /\ k < n => emitted = <<>>
        /\ k >= n => emitted # <<>> /\ emitted[1].src = Block(1)

\* C4, amended: after a stop the buffer is gone, and the following start
\* begins a fresh count: the first bundle of the new run is completed on that
\* run's N-th primary event, whatever number of events the previous run left
\* buffered, and it yields the first derived event unless its reduction raises.
C4_FreshCount ==
    /\ Idle => processor = <<>>
    /\ ~Idle =>
        /\ k < n => windows = <<>> /\ emitted = <<>>
        /\ k < n => Len(processor[1].buffer) = k
        /\ k >= n =>
            /\ Uids(windows[1].cache) = Block(1)
            /\ windows[1].exc = None =>
                  emitted # <<>> /\ emitted[1].src = Block(1)

\* the run after a stop that dropped events has emitted its first event
C4_Witness ==
    /\ ~Idle
    /\ run = 2
    /\ dropped # <<>>
    /\ k = n
    /\ Len(emitted) = 1

\* C5: an event whose descriptor is stored and not named "primary" changes
\* nothing: the pipeline with its buffer, n, data_keys, Settings, the dichro
\* device and what was emitted are as before, and nothing is raised.
C5_NonPrimaryIgnored ==
    [][\A desc \in DescriptorIds :
          (called' = <<"event", desc>> /\ desc \in raw_descriptors
                /\ DescriptorDoc(desc).name # "primary") =>
              /\ UNCHANGED <<settings, n, in_node, processor, out_node,
                             data_keys, raw_descriptors, dichro, observers>>
              /\ UNCHANGED <<k, windows, emitted, puts>>
              /\ raised' = None]_vars

\* a baseline event has just been delivered while a partial bundle is buffered
C5_Witness ==
    /\ called = <<"event", "d3">>
    /\ raised = None
    /\ Partial

\* the events of a bundle come from more than one descriptor
Mixed(cache) == \E i, j \in 1..Len(cache) : cache[i].descriptor # cache[j].descriptor

\* C6: when a completed bundle mixes descriptor ids, the call of event()
\* that completed it raises, no derived event is emitted for it and the
\* dichro device is not published.
C6_MixedRaises ==
    [][(Len(windows') = Len(windows) + 1 /\ Mixed(windows'[Len(windows')].cache)) =>
          /\ raised' # None
          /\ called'[1] = "event"
          /\ windows'[Len(windows')].exc = raised'
          /\ emitted' = emitted
          /\ puts' = puts
          /\ dichro' = dichro]_vars

\* the event just delivered completed a bundle of mixed descriptors
C6_Witness ==
    /\ called[1] = "event"
    /\ raised = "Exception"
    /\ windows # <<>>
    /\ Mixed(windows[Len(windows)].cache)

\* the last entry of a log
Last(s) == s[Len(s)]

\* the step completes a bundle
Completes == Len(windows') = Len(windows) + 1

\* some channel of the map captured at start is not a data key of desc
Mismatch(desc) ==
    \E role \in DOMAIN data_keys[1] :
        data_keys[1][role] \notin DescriptorDoc(desc).data_keys

\* a bundle of one descriptor whose data keys the captured map does not match
Degraded(cache) == ~Mixed(cache) /\ Mismatch(cache[1].descriptor)

\* C7: a bundle whose descriptor lacks a channel of the map captured at start
\* yields, without raising, one derived event and one publish with xas = 0,
\* xmcd = 0 and 0 in the field of every configured positioner, whatever the
\* readings are; a bundle that comes later in the run and whose descriptor
\* has every channel is reduced from its own readings as usual.
C7_DegradedZeros ==
    [][Completes =>
        LET cache == Last(windows').cache
            doc == Last(emitted')
        IN  /\ Degraded(cache) =>
                /\ raised' = None
                /\ Len(emitted') = Len(emitted) + 1
                /\ doc.src = Uids(cache)
                /\ doc.data["xas"] = 0
                /\ doc.data["xmcd"] = 0
                /\ \A role \in {"positioner1", "positioner2"} :
                      settings[role] # None => doc.data[settings[role]] = 0
                /\ Len(puts') = Len(puts) + 1
                /\ Last(puts').dev_t[3] = 0
                /\ Last(puts').dev_t[4] = 0
            /\ ( /\ ~Mixed(cache)
                 /\ ~Mismatch(cache[1].descriptor)
                 /\ \E j \in 1..Len(windows) : Degraded(windows[j].cache) ) =>
                /\ raised' = None
                /\ Len(emitted') = Len(emitted) + 1
                /\ doc.src = Uids(cache)
                /\ doc.data = MatchedEvt(cache, data_keys[1], settings)
                /\ doc.data["xas"] # 0
                /\ \A role \in {"positioner1", "positioner2"} :
                      settings[role] # None =>
                          doc.data[settings[role]] >= Scale]_vars

\* a degraded bundle of non-zero readings, then a matching bundle reduced to
\* ln(100/50)
C7_Witness ==
    /\ Len(windows) = 2
    /\ Len(emitted) = 2
    /\ Degraded(windows[1].cache)
    /\ emitted[1].data["xas"] = 0
    /\ settings.positioner1 = "energy"
    /\ emitted[1].data["energy"] = 0
    /\ windows[1].cache[1].data["energy"] = 1
    /\ ~Mismatch(windows[2].cache[1].descriptor)
    /\ emitted[2].data["xas"] = 6931
    /\ raised = None

\* C9: during a run configured without positioner2, the second element of
\* every tuple published to the dichro device is NaN, no derived event has a
\* field other than xas, xmcd and the positioner1 channel, and xas and xmcd
\* are what the same bundle gives when positioner2 names a channel that the
\* bundle's descriptor records.
C9_Positioner2Absent ==
    (~Idle /\ settings.positioner2 = None) =>
        /\ Len(emitted) = Len(Reduced)
        /\ Len(puts) = Len(Reduced)
        /\ \A j \in 1..Len(Reduced) :
            /\ puts[j].dev_t[2] = NaN
            /\ DOMAIN emitted[j].data =
                  {"xas", "xmcd"} \cup ({settings.positioner1} \ {None})
            /\ \A p \in PositionerNames
                        \cap DescriptorDoc(emitted[j].descriptor).data_keys :
                  LET st == [settings EXCEPT !.positioner2 = p]
                      with == process_xmcd(Reduced[j].cache, get_keys(st), st)
                  IN  /\ with.exc = None
                      /\ with.put[1][2] # NaN
                      /\ p \in DOMAIN with.ret[1].data
                      /\ with.ret[1].data["xas"] = emitted[j].data["xas"]
                      /\ with.ret[1].data["xmcd"] = emitted[j].data["xmcd"]
                      /\ with.put[1][3] = puts[j].dev_t[3]
                      /\ with.put[1][4] = puts[j].dev_t[4]

\* a run without positioner2 has published ln(100/50) with a mean position
C9_Witness ==
    /\ ~Idle
    /\ settings.positioner2 = None
    /\ settings.positioner1 = "energy"
    /\ Len(puts) = 1
    /\ puts[1].dev_t[1] = Scale
    /\ puts[1].dev_t[2] = NaN
    /\ puts[1].dev_t[3] = 6931
    /\ "th" \in DescriptorDoc(emitted[1].descriptor).data_keys

\* how often observer o has been notified in this run
Notified(o) ==
    SumSeq([j \in 1..Len(puts) |->
              IF o \in DOMAIN puts[j].acq_done THEN puts[j].acq_done[o] ELSE 0])

\* the dichro device changes in this step, and only, if publishing holds:
\* then it takes one tuple, reduced from the bundle the step completes, and
\* runs each observer subscribed at that time once
PublishesIff(publishing) ==
    IF publishing
        THEN /\ Len(puts') = Len(puts) + 1
             /\ puts' = Append(puts, Last(puts'))
             /\ Last(puts').src = Uids(Last(windows').cache)
             /\ Last(puts').acq_done = [o \in observers |-> 1]
             /\ dichro' = [positioner1 |-> Last(puts').dev_t[1],
                           positioner2 |-> Last(puts').dev_t[2],
                           xas |-> Last(puts').dev_t[3],
                           xmcd |-> Last(puts').dev_t[4]]
        ELSE /\ dichro' = dichro
             /\ puts' = puts \/ (called' = <<"start", None>> /\ puts' = <<>>)

\* pattern [1,-1,-1,1] and 8 primary events, every bundle of one descriptor
\* that has the channels of the captured map
EightMatching ==
    /\ ~Idle
    /\ n = 4
    /\ settings.pattern = <<1, -1, -1, 1>>
    /\ k = 8
    /\ \A j \in 1..Len(windows) : ~Mixed(windows[j].cache)
                                    /\ ~Mismatch(windows[j].cache[1].descriptor)

\* two publishes in the order of the bundles, two notifications for each
\* observer that subscribed before the first
TwoPublishes ==
    /\ Len(puts) = 2
    /\ puts[1].src = Block(1)
    /\ puts[2].src = Block(2)
    /\ \A o \in DOMAIN puts[1].acq_done : Notified(o) = 2

\* C8 as stated: the dichro device is published once for every completed
\* bundle and at no other step, each subscribed observer is notified once
\* per publish, and 8 matching events under pattern [1,-1,-1,1] give two
\* publishes in bundle order with two notifications per observer.
C8_PublishPerWindow ==
    /\ [][PublishesIff(Completes)]_vars
    /\ [](EightMatching => TwoPublishes)

\* C8, amended: the dichro device is published once for every completed
\* bundle whose reduction does not raise and at no other step, each
\* subscribed observer is notified once per publish, and 8 matching events
\* under pattern [1,-1,-1,1] give two publishes in bundle order with two
\* notifications per observer.
C8_PublishPerReduced ==
    /\ [][PublishesIff(Completes /\ Last(windows').exc = None)]_vars
    /\ [](EightMatching => TwoPublishes)

\* both observers have seen the two publishes of the 8 event scenario
C8_Witness ==
    /\ EightMatching
    /\ observers = Observers
    /\ Len(puts) = 2
    /\ DOMAIN puts[1].acq_done = Observers
    /\ Notified("o1") = 2
    /\ Notified("o2") = 2

\* C10: a stop leaves Settings.positioner1 and Settings.positioner2 at None
\* and every other attribute of Settings as it was; get_keys then has no
\* positioner role, only an assignment brings a positioner back, and a start
\* captures a positioner role exactly when Settings names one.
C10_StopClearsPositioners ==
    /\ [][called' = <<"stop", None>> =>
            /\ settings'.positioner1 = None
            /\ settings'.positioner2 = None
            /\ DOMAIN get_keys(settings') = {"monitor", "detector"}
            /\ \A a \in {"monitor", "detector", "transmission", "pattern"} :
                  settings'[a] = settings[a]]_vars
    /\ [][\A role \in {"positioner1", "positioner2"} :
            /\ (settings[role] = None /\ settings'[role] # None) =>
                  called' = <<"setattr", None>>
            /\ called' = <<"start", None>> =>
                  (role \in DOMAIN data_keys'[1] <=> settings[role] # None)]_vars

\* a stop of the second run, with an event in the buffer, under Settings that
\* differ from the defaults in every other attribute
C10_Witness ==
    /\ called = <<"stop", None>>
    /\ run = 2
    /\ dropped # <<>>
    /\ settings = [positioner1 |-> None, positioner2 |-> None,
                   monitor |-> "Time", detector |-> "4idhI2",
                   transmission |-> FALSE, pattern |-> <<1, -1>>]

\* C11: a stop that ends a run clears the captured channel map and the
\* captured window size, so that the attribute n of the stream no longer has
\* the value the preceding start gave it.
C11_CapturedCleared ==
    [][(called' = <<"stop", None>> /\ ~Idle) =>
          /\ data_keys' = <<>>
          /\ processor' = <<>>
          /\ n' # n]_vars

\* C12: from the start of a run to its stop no step, an assignment to
\* Settings.pattern or to a channel name of Settings included, changes n, the
\* n of the partition node or data_keys; the bundles of the run have the
\* captured size and the derived events the positioner fields of the captured
\* map; a start captures the pattern length and the map Settings has then.
C12_CapturedReadOnly ==
    /\ [][(~Idle /\ called' # <<"stop", None>>) =>
            /\ ~Idle'
            /\ n' = n
            /\ processor'[1].n = processor[1].n
            /\ data_keys' = data_keys]_vars
    /\ [][called' = <<"start", None>> =>
            /\ n' = Len(settings.pattern)
            /\ processor'[1].n = Len(settings.pattern)
            /\ data_keys' = <<get_keys(settings)>>]_vars
    /\ [](~Idle =>
            /\ Len(windows) = k \div n
            /\ Len(processor[1].buffer) = k % n
            /\ \A j \in 1..Len(windows) : Len(windows[j].cache) = n
            /\ \A j \in 1..Len(emitted) :
                  DOMAIN emitted[j].data =
                      {"xas", "xmcd"} \cup PositionerFields(data_keys[1]))

\* a run captured pattern [1,-1,-1,1] and both positioners; Settings now has
\* a pattern of two and no positioner2, and the bundle still took four events
C12_Witness ==
    /\ ~Idle
    /\ n = 4
    /\ Len(settings.pattern) = 2
    /\ k = 4
    /\ Len(windows) = 1
    /\ "positioner2" \in DOMAIN data_keys[1]
    /\ settings.positioner2 = None

\* the signals of the dichro device after a put of dev_t
Record(dev_t) ==
    [positioner1 |-> dev_t[1], positioner2 |-> dev_t[2],
     xas |-> dev_t[3], xmcd |-> dev_t[4]]

\* C14: the four signals of the dichro device change only in an event call
\* that completes a bundle and publishes it; a start, a stop, a descriptor
\* and an event that completes no bundle leave them as they are, so after
\* the stop of a run that published they hold the tuple of its last publish.
C14_RecordFrame ==
    /\ [][dichro' # dichro =>
            /\ called'[1] = "event"
            /\ Completes
            /\ Len(puts') = Len(puts) + 1
            /\ dichro' = Record(Last(puts').dev_t)]_vars
    /\ [][(called'[1] \in {"start", "stop", "descriptor", "setattr"}
             \/ (called'[1] = "event" /\ ~Completes)) =>
            dichro' = dichro]_vars
    /\ []((called = <<"stop", None>> /\ puts # <<>>) =>
            dichro = Record(Last(puts).dev_t))

\* the second run has stopped with an event in its buffer, and the device
\* still shows ln(100/50) of the run's last bundle
C14_Witness ==
    /\ called = <<"stop", None>>
    /\ run = 2
    /\ puts # <<>>
    /\ dropped # <<>>
    /\ dichro.xas = 6931
    /\ dichro.positioner1 = Scale

\* C16: the event call that brings the n-th event of a bundle returns with
\* the bundle's derived event delivered and its tuple on the dichro device;
\* no other call delivers or publishes anything, so no bundle that reduced is
\* still undelivered when the next document is accepted.
C16_Synchronous ==
    /\ [][(called'[1] = "event" /\ Completes /\ Last(windows').exc = None) =>
            /\ k' = k + 1
            /\ Last(Last(windows').cache).uid = <<run, k>>
            /\ Len(Last(windows').cache) = n
            /\ emitted' = Append(emitted, Last(emitted'))
            /\ Last(emitted').src = Uids(Last(windows').cache)
            /\ puts' = Append(puts, Last(puts'))
            /\ Last(puts').src = Uids(Last(windows').cache)
            /\ dichro' = Record(Last(puts').dev_t)]_vars
    /\ [][called'[1] # "event" =>
            \/ emitted' = emitted /\ puts' = puts /\ windows' = windows
            \/ /\ called' = <<"start", None>>
               /\ emitted' = <<>> /\ puts' = <<>> /\ windows' = <<>>]_vars
    /\ [](Len(emitted) = Len(Reduced) /\ Len(puts) = Len(Reduced))

\* the call for the fourth event of a run has returned; both bundles are
\* delivered and published
C16_Witness ==
    /\ called[1] = "event"
    /\ ~Idle
    /\ n = 2
    /\ k = 4
    /\ Len(windows) = 2
    /\ Len(emitted) = 2
    /\ Len(puts) = 2
    /\ emitted[2].src = <<<<run, 2>>, <<run, 3>>>>

\* the absorption of one event under the Settings of the run
A(evt) ==
    LET M == evt.data[settings.monitor]
        D == evt.data[settings.detector]
    IN  IF settings.transmission THEN Log(M, D) ELSE Div(D * Scale, M)

\* every bundle of matching schema gave xas = mean(A) and
\* xmcd = 2 * mean(A[i] * pattern[i])
ReducedAsDefined ==
    ~Idle =>
        \A j \in 1..Len(Reduced) :
            LET cache == Reduced[j].cache
            IN  ~Mismatch(cache[1].descriptor) =>
                  /\ emitted[j].data["xas"] =
                        Div(SumSeq([i \in 1..n |-> A(cache[i])]), n)
                  /\ emitted[j].data["xmcd"] =
                        2 * Div(SumSeq([i \in 1..n |->
                                  A(cache[i]) * settings.pattern[i]]), n)
                  /\ puts[j].dev_t[3] = emitted[j].data["xas"]
                  /\ puts[j].dev_t[4] = emitted[j].data["xmcd"]

\* the bundle M = [100,100,100,100], D = [50,55,55,50] under pattern
\* [1,-1,-1,1] in transmission came first in the run
Reference ==
    /\ ~Idle
    /\ settings.pattern = <<1, -1, -1, 1>>
    /\ settings.transmission
    /\ settings.monitor = "4idhI0"
    /\ settings.detector = "4idhI1"
    /\ Len(emitted) = 1
    /\ ~Mismatch(windows[1].cache[1].descriptor)
    /\ [i \in 1..4 |-> windows[1].cache[i].data["4idhI0"]]
          = <<100, 100, 100, 100>>
    /\ [i \in 1..4 |-> windows[1].cache[i].data["4idhI1"]]
          = <<50, 55, 55, 50>>

\* v is within 0.0005 of ref
About(v, ref) == v - ref <= 5 /\ ref - v <= 5

\* C17 as stated: xas and xmcd of a bundle of matching schema are mean(A) and
\* 2 * mean(A[i] * pattern[i]), and the reference bundle has xas about 0.6438.
C17_ReferenceStated ==
    /\ ReducedAsDefined
    /\ Reference => About(emitted[1].data["xas"], 6438)

\* C17, amended: xas and xmcd of a bundle of matching schema are mean(A) and
\* 2 * mean(A[i] * pattern[i]), and the reference bundle has xas about 0.6455
\* and xmcd about 0.0953.
C17_ReferenceComputed ==
    /\ ReducedAsDefined
    /\ Reference => /\ About(emitted[1].data["xas"], 6455)
                    /\ About(emitted[1].data["xmcd"], 953)

\* the reference bundle has been reduced
C17_Witness == Reference /\ emitted[1].data["xas"] > 0

\* the document of StartDocs that a forwarded document came from
Incoming(fwd) == CHOOSE doc \in StartDocs : doc.plan_name = fwd.plan_name

\* C13: the document a start hands on has a motors entry that lists
\* Settings.positioner1 and Settings.positioner2, in this order, leaving out
\* what is None, whatever motors the incoming document had; its other
\* entries are those of the incoming document.
C13_Motors ==
    [][called' = <<"start", None>> =>
        LET fwd == start_doc'[1]
            p1 == settings.positioner1
            p2 == settings.positioner2
        IN  /\ Len(start_doc') = 1
            /\ fwd.motors =
                  IF p1 # None /\ p2 # None THEN <<p1, p2>>
                  ELSE IF p1 # None THEN <<p1>>
                  ELSE IF p2 # None THEN <<p2>>
                  ELSE <<>>
            /\ DOMAIN fwd = DOMAIN Incoming(fwd) \cup {"motors"}
            /\ fwd.plan_name = Incoming(fwd).plan_name]_vars

\* the start document of a grid_scan over th and energy went on with the one
\* positioner of Settings
C13_Witness ==
    /\ called = <<"start", None>>
    /\ start_doc # <<>>
    /\ start_doc[1].plan_name = "grid_scan"
    /\ settings.positioner1 = None
    /\ settings.positioner2 = "energy"
    /\ start_doc[1].motors = <<"energy">>

\* C15: get_keys returns a mapping whose keys are the roles among
\* positioner1, positioner2, monitor and detector that Settings does not hold
\* as None, each with the channel name Settings holds for it, and the call
\* changes neither Settings nor the stream nor the dichro device.
C15_GetKeys ==
    [][called' = <<"get_keys", None>> =>
        LET keys == returned'[1]
        IN  /\ Len(returned') = 1
            /\ \A role \in {"positioner1", "positioner2",
                             "monitor", "detector"} :
                  IF settings[role] = None
                      THEN role \notin DOMAIN keys
                      ELSE role \in DOMAIN keys /\ keys[role] = settings[role]
            /\ DOMAIN keys \subseteq {"positioner1", "positioner2",
                                       "monitor", "detector"}
            /\ settings' = settings
            /\ UNCHANGED <<stream, dichro, observers>>]_vars

\* get_keys under Settings without positioner1 and without detector
C15_Witness ==
    /\ called = <<"get_keys", None>>
    /\ settings.positioner1 = None
    /\ settings.positioner2 = "th"
    /\ settings.monitor = "Time"
    /\ settings.detector = None
    /\ returned = <<[positioner2 |-> "th", monitor |-> "Time"]>>

\* the readings among the messages of a scan point
Readings_of(point) == SelectSeq(point, LAMBDA m : m.msg = "trigger_and_read")

\* the messages of every scan point are: the scanned motor's move, then for
\* each step of pr_setup.dichro_steps, in list order, a move of the
\* oscillating positioner to center + step * offset and one reading
DichroPoints ==
    \A j \in 1..Len(msgs) :
        LET steps == pr_setup.dichro_steps
            point == Tail(msgs[j])
        IN  /\ msgs[j][1].msg = "mv" /\ msgs[j][1].obj = "motor"
            /\ Len(point) = 2 * Len(steps)
            /\ \A i \in 1..Len(steps) :
                  /\ point[2 * i - 1] =
                        [msg |-> "mv", obj |-> pr_setup.positioner,
                         pos |-> pr_setup.center + steps[i] * pr_setup.offset]
                  /\ point[2 * i].msg = "trigger_and_read"
            /\ Len(Readings_of(msgs[j])) = Len(steps)

CountsEnded ==
    /\ configure_counts.pc \in {"done", "raised"}
    /\ configure_counts.count_time \notin {<<>>, <<0>>}

\* C19: when configure_counts_wrapper has ended after a call with a
\* count_time that is neither None nor zero, every setting that differed
\* after setup() from its value at entry -- the preset_monitor of a
\* detector, the preset and the gate of the monitor channel -- has the value
\* of the entry again, whether the wrapped plan completed or raised.
C19_Restored ==
    CountsEnded =>
        LET w == configure_counts
        IN  /\ \A det \in Detectors :
                  w.setup.preset_monitor[det] # w.entry.preset_monitor[det]
                      => devices.preset_monitor[det]
                            = w.entry.preset_monitor[det]
            /\ w.setup.preset # w.entry.preset
                  => devices.preset = w.entry.preset
            /\ w.setup.gate # w.entry.gate => devices.gate = w.entry.gate

\* the subscriptions of the present call of stage_dichro_wrapper
Subscribed ==
    {stage_dichro.dichro_token[j] : j \in DOMAIN stage_dichro.dichro_token}
        \cap subs

\* C20: with dichro = True the dichro stream is subscribed when the wrapped
\* plan gets to its first message, and when stage_dichro_wrapper has ended,
\* by return or by an exception of staging or of the wrapped plan, the
\* subscription it made is no longer held: no exit leaves the stream
\* subscribed.
C20_NoLeak ==
    /\ (stage_dichro.pc = "plan" /\ stage_dichro.dichro)
          => Subscribed # {}
    /\ (stage_dichro.pc \in {"done", "raised"} /\ stage_dichro.dichro)
          => Subscribed = {}

\* C21: whenever event() has returned during a run, the partition node holds
\* fewer than N events (and no negative number of them); a step that
\* completes a bundle finds N - 1 events buffered and leaves the pipeline in
\* place with an empty buffer.
C21_BufferBelowN ==
    /\ [](~Idle => /\ Len(processor[1].buffer) >= 0
                   /\ Len(processor[1].buffer) < processor[1].n
                   /\ processor[1].n = n)
    /\ [][Completes =>
            /\ Len(processor[1].buffer) = n - 1
            /\ processor'[1].buffer = <<>>
            /\ processor'[1].n = n
            /\ in_node' # None
            /\ out_node' # None]_vars

\* the N-th and the 2N-th primary event of a run have each emptied the buffer
C21_Witness ==
    /\ ~Idle
    /\ called[1] = "event"
    /\ Len(windows) = 2
    /\ k = 2 * n
    /\ processor[1].buffer = <<>>

\* the pattern with every entry negated
Negated(pattern) == [i \in 1..Len(pattern) |-> -pattern[i]]

\* all entries of a sequence are the same
AllEqual(s) == \A i \in 1..Len(s) : s[i] = s[1]

\* C22: for every bundle reduced from its readings, when the per-event
\* absorption values are all equal and the pattern entries sum to zero, the
\* derived event and the tuple put to the device have xmcd = 0 and xas equal
\* to the common value; and the reduction of the same bundle under the
\* negated pattern has the negated xmcd and the same xas.
C22_CommonMode ==
    \A j \in 1..Len(emitted) :
        LET cache == Reduced[j].cache
            dk == data_keys[1]
            evt == emitted[j].data
            neg == process_xmcd(cache, dk,
                      [settings EXCEPT !.pattern = Negated(@)])
        IN  KeysMatch(cache[1].descriptor, dk) =>
              /\ (AllEqual(Absorption(cache, dk, settings))
                    /\ SumSeq(settings.pattern) = 0) =>
                    /\ evt["xmcd"] = 0
                    /\ evt["xas"] = Absorption(cache, dk, settings)[1]
                    /\ puts[j].dev_t[3] = evt["xas"]
                    /\ puts[j].dev_t[4] = 0
              /\ neg.exc = None
              /\ neg.ret[1].data["xmcd"] = -evt["xmcd"]
              /\ neg.ret[1].data["xas"] = evt["xas"]
              /\ neg.put[1][4] = -puts[j].dev_t[4]

\* a bundle of equal absorption ln 2 reduced to xmcd = 0, then a bundle of
\* unequal absorption with an xmcd that is not zero
C22_Witness ==
    /\ Len(emitted) = 2
    /\ settings.transmission
    /\ emitted[1].data["xas"] = 6931
    /\ emitted[1].data["xmcd"] = 0
    /\ emitted[2].data["xmcd"] # 0

\* C23: a start that finds the pipeline of an unfinished run in place raises
\* nothing and builds a new one: the window size and the channel map are
\* taken from Settings as they are now and the buffer is empty; the events
\* the unfinished run had buffered are in no bundle and in no buffer of the
\* new run, which completes its first bundle on its own N-th event.
C23_ReentrantStart ==
    /\ [][(called' = <<"start", None>> /\ ~Idle) =>
            /\ raised' = None
            /\ in_node' # None
            /\ n' = Len(settings.pattern)
            /\ processor' = <<[n |-> Len(settings.pattern), buffer |-> <<>>]>>
            /\ data_keys' = <<get_keys(settings)>>
            /\ settings' = settings]_vars
    /\ [](~Idle =>
            /\ \A i \in 1..Len(processor[1].buffer) :
                  processor[1].buffer[i].uid[1] = run
            /\ \A j \in 1..Len(windows) : Uids(windows[j].cache) = Block(j)
            /\ Len(processor[1].buffer) = k % n)

\* a start has just replaced the pipeline of an unfinished run (its
\* descriptor is still stored) and has taken a window size of 2 and a channel
\* map without positioner from Settings written during that run
C23_Witness ==
    /\ called = <<"start", None>>
    /\ run = 2
    /\ "d1" \in raw_descriptors
    /\ n = 2
    /\ processor[1].buffer = <<>>
    /\ DOMAIN data_keys[1] = {"monitor", "detector"}

\* C24: every derived event has its tuple put to the dichro device, with the
\* call of the device's acq_done subscribers, before it is delivered to the
\* sink and the subscribers of the stream: when the tuple of the j-th
\* derived event of a run was put, only j - 1 derived events had been
\* delivered.
C24_PutBeforeDelivery ==
    /\ Len(puts) = Len(emitted)
    /\ \A j \in 1..Len(emitted) :
          /\ puts[j].src = emitted[j].src
          /\ puts[j].delivered = j - 1
          /\ puts[j].dev_t[3] = emitted[j].data["xas"]
          /\ puts[j].dev_t[4] = emitted[j].data["xmcd"]
          /\ \A o \in DOMAIN puts[j].acq_done : puts[j].acq_done[o] >= 1

\* two bundles of a run have been put and delivered with an observer
\* subscribed
C24_Witness ==
    /\ Len(emitted) = 2
    /\ puts[2].delivered = 1
    /\ puts[2].acq_done # <<>>
    /\ DOMAIN puts[2].acq_done # {}

\* the uids of the events of the j-th bundle of the run
Consumed(j) == Range(Uids(windows[j].cache))

\* C25: a bundle of mixed descriptors is used up although its reduction
\* raises: the step that completes it leaves the buffer empty, none of its N
\* events is in the buffer, in a later bundle or in a derived event, and the
\* bundle after it is the next N primary events of the run, reduced to a
\* derived event unless it raises too.
C25_FailedConsumed ==
    /\ [][(Completes /\ Mixed(Last(windows').cache)) =>
            /\ raised' = "Exception"
            /\ processor'[1].buffer = <<>>
            /\ emitted' = emitted]_vars
    /\ [](\A j \in 1..Len(windows) : Mixed(windows[j].cache) =>
            /\ windows[j].exc = "Exception"
            /\ ~Idle =>
                  Consumed(j) \cap Range(Uids(processor[1].buffer)) = {}
            /\ \A i \in 1..Len(windows) : i # j =>
                  Consumed(j) \cap Consumed(i) = {}
            /\ \A e \in 1..Len(emitted) :
                  Consumed(j) \cap Range(emitted[e].src) = {}
            /\ j < Len(windows) =>
                  /\ Uids(windows[j + 1].cache) = Block(j + 1)
                  /\ windows[j + 1].exc = None =>
                        \E e \in 1..Len(emitted) :
                            emitted[e].src = Block(j + 1))

\* the first bundle of the run failed for its mixed descriptors and the event
\* just delivered completed the second, which was reduced
C25_Witness ==
    /\ called[1] = "event"
    /\ Len(windows) = 2
    /\ Mixed(windows[1].cache)
    /\ windows[2].exc = None
    /\ processor[1].buffer = <<>>
    /\ Len(emitted) = 1

\* C26: every unsubscribe message of a call of stage_dichro_wrapper carries
\* the token that a subscribe message of the same call returned; a call whose
\* staging raised before it subscribed issues no unsubscribe message.
C26_UnsubscribeSubscribed ==
    /\ \A i \in 1..Len(stage_dichro.unsubscribe) :
          /\ stage_dichro.unsubscribe[i] # <<>>
          /\ stage_dichro.unsubscribe[i] = stage_dichro.dichro_token
    /\ stage_dichro.dichro_token = <<>> => stage_dichro.unsubscribe = <<>>

\* C30: while the wrapped plan of a dichro call of stage_dichro_wrapper runs,
\* the plots of dichro_bec are enabled and those of bec disabled; when the
\* call has ended, by return or by an exception of staging or of the plan,
\* the plots of bec are enabled and those of dichro_bec disabled.
C30_PlotsRestored ==
    /\ (stage_dichro.pc = "plan" /\ stage_dichro.dichro) =>
          stage_dichro.plots = [bec |-> FALSE, dichro_bec |-> TRUE]
    /\ (stage_dichro.pc \in {"done", "raised"} /\ stage_dichro.dichro) =>
          stage_dichro.plots = [bec |-> TRUE, dichro_bec |-> FALSE]

\* every scan point so far has as many readings as the window of the stream
\* is long, the bundles are the readings of the scan points one by one, and
\* once every reading is delivered there is one derived event per scan point
WindowPerPoint ==
    /\ Len(flag.dichro_steps) = n
    /\ \A j \in 1..Len(msgs) : Len(Taken(msgs[j])) = n
    /\ \A j \in 1..Len(windows) : Uids(windows[j].cache) = Block(j)
    /\ Len(emitted) = Len(windows)
    /\ k = AllTaken => Len(emitted) = Len(msgs)

C28_OnlyWhileRunning ==
    /\ [][(\/ Len(emitted') > Len(emitted)
           \/ Len(puts') > Len(puts)
           \/ Len(windows') > Len(windows)
           \/ dichro' # dichro) =>
            /\ ~Idle
            /\ in_node' # None
            /\ called'[1] = "event"]_vars
    /\ [][(Idle /\ called'[1] = "event") =>
            /\ UNCHANGED <<emitted, puts, windows, dichro, k>>
            /\ in_node' = None
            /\ processor' = <<>>]_vars
    /\ [](\A j \in 1..Len(emitted) :
            /\ run >= 1
            /\ \A i \in 1..Len(emitted[j].src) : emitted[j].src[i][1] = run)

\* after a run that emitted a derived event was stopped, an event of a
\* descriptor delivered again has found no pipeline
C28_Witness ==
    /\ Idle
    /\ called = <<"event", "d1">>
    /\ raised = "AttributeError"
    /\ run = 1
    /\ Len(emitted) = 1
    /\ Len(puts) = 1

\* the name of the i-th motor of the present plan, None when it has none
PlanMotor(i) ==
    IF i <= Len(stage_dichro.positioner) THEN stage_dichro.positioner[i]
    ELSE None

\* C29: when the stream has just received the start document of a dichro
\* plan, positioner1 and positioner2 of Settings are the names of the first
\* and of the second motor of that plan, None for a motor it does not have,
\* whatever plans came before and however they ended.
C29_PositionersOfPlan ==
    called = <<"start", None>> =>
        /\ settings.positioner1 = PlanMotor(1)
        /\ settings.positioner2 = PlanMotor(2)
        /\ start_doc[1].motors = Motors(settings)

====
